---- MODULE Spec2Model ----
(***************************************************************************)
(* Model of the Pixel Pony referral worker (src/index.js, lines 1-208).    *)
(*                                                                         *)
(* The worker keeps one module-level checkpoint, lastProcessedBlock, and   *)
(* runs trackAndFundReferrals once at start and then from a setInterval    *)
(* timer.  trackAndFundReferrals is an async function: every `await` is a  *)
(* suspension point, so one action of the model is the code between two    *)
(* awaits.  The chain (height, RaceExecuted log), the referral contract    *)
(* (pendingRewards), the wallet balance and the transactions the wallet    *)
(* has sent form the environment.  Pending rewards change only through    *)
(* the fundRewards transactions of the worker's wallet.                    *)
(*                                                                         *)
(* Amounts are counted in units of 0.00001 ETH, so REWARD_PER_RACE         *)
(* (0.00005 ETH) is 5.                                                     *)
(***************************************************************************)
EXTENDS Integers, Sequences, FiniteSets, TLC

\* ---------------------------------------------------------------- bounds
MaxNewBlocks == 2   \* blocks mined after the first start of the worker
MaxCycles    == 2   \* executions of trackAndFundReferrals alive at once
MaxOverlaps  == 1   \* timer ticks that fire while an execution is running
MaxTxs       == 2   \* funding transactions the wallet sends in one run

\* ------------------------------------------------------ program constants
REWARD_PER_RACE == 5      \* ethers.utils.parseEther("0.00005"), unit 1e-5 ETH
START_BLOCK     == 0      \* parseInt(process.env.START_BLOCK || "0")
LOOKBACK        == 1000   \* currentBlock - 1000

\* ------------------------------------------------------------ environment
Players   == {"P1", "P2", "P3"}
Referrers == {"B1", "B2"}

\* the RaceExecuted events one block can carry, as the players in log order
BlockEvents == {<<>>, <<"P1">>, <<"P2">>, <<"P3">>, <<"P1", "P2", "P3">>}

\* the chain height at the start of the worker: one block below the
\* lookback, so that the worker sees heights below, at and above it
InitHeight == LOOKBACK - 1
\* wallet balance at the first start of the worker: covers two rewards
InitBalance == 2 * REWARD_PER_RACE

\* referral.hasReferrer(player)
hasReferrer(player) == player \in {"P1", "P3"}

\* referral.referrerOf(player)
referrerOf(player) ==
    CASE player = "P1" -> "B1"
      [] player = "P3" -> "B2"
      [] OTHER         -> "0x0"

VARIABLES
    height,              \* provider.getBlockNumber() would return this
    raceLog,             \* RaceExecuted events on chain: <<[block, player]>>
    pendingRewards,      \* referral contract: referrer -> pending amount
    walletBalance,       \* balance of the funding wallet
    txs,                 \* transactions sent by the wallet, in nonce order
    keySet,              \* MAINNET_PRIVATE_KEY is set in the environment
    lastProcessedBlock,  \* the checkpoint
    proc,                \* position of runWorker / the process; "exited" is
                         \* process.exit(0) and "fatal" is process.exit(1)
    cyc,                 \* the executions of trackAndFundReferrals
    outcome,             \* how the execution that ended last ended
    hist                 \* history of the run (not program state)

vars == <<height, raceLog, pendingRewards, walletBalance, txs, keySet,
          lastProcessedBlock, proc, cyc, outcome, hist>>

envVars == <<height, raceLog, pendingRewards, walletBalance, txs, keySet>>

Cycles == 1..MaxCycles

\* ------------------------------------------------------------ pure helpers
Min(a, b) == IF a < b THEN a ELSE b
Max(a, b) == IF a > b THEN a ELSE b

RECURSIVE SumSeq(_)
SumSeq(s) == IF s = <<>> THEN 0 ELSE Head(s) + SumSeq(Tail(s))

\* const fromBlock = lastProcessedBlock === 0 ? currentBlock - 1000
\*                                            : lastProcessedBlock + 1;
FromBlock(lpb, currentBlock) ==
    IF lpb = 0 THEN currentBlock - LOOKBACK ELSE lpb + 1

\* the upper end of the log query: queryFilter(filter, fromBlock, currentBlock)
ToBlock(fromBlock, currentBlock) == currentBlock

\* pixelPony.queryFilter(filter, fromBlock, toBlock): the players of the
\* RaceExecuted events of the blocks fromBlock..toBlock, in log order
RECURSIVE QueryFilter(_, _, _)
QueryFilter(log, fromBlock, toBlock) ==
    IF log = <<>> THEN <<>>
    ELSE LET e == Head(log)
             rest == QueryFilter(Tail(log), fromBlock, toBlock)
         IN IF e.block >= fromBlock /\ e.block <= toBlock
            THEN <<e.player>> \o rest
            ELSE rest

\* index of referrer r in the insertion-ordered referralData, 0 if absent
RECURSIVE IndexOf(_, _)
IndexOf(data, r) ==
    IF data = <<>> THEN 0
    ELSE IF data[Len(data)].referrer = r THEN Len(data)
    ELSE IndexOf(SubSeq(data, 1, Len(data) - 1), r)

\* an iteration that sets the entry of the referrer anew for every event
AddRace_Overwrite(data, player) ==
    IF ~hasReferrer(player) THEN data
    ELSE LET r == referrerOf(player)
             k == IndexOf(data, r)
         IN IF k = 0
            THEN Append(data, [referrer |-> r, raceCount |-> 1,
                               totalReward |-> REWARD_PER_RACE])
            ELSE [data EXCEPT ![k].raceCount = 1,
                              ![k].totalReward = REWARD_PER_RACE]

\* one iteration of the loop over the events (lines 65-86)
AddRace(data, player) ==
    IF ~hasReferrer(player) THEN data
    ELSE LET r == referrerOf(player)
             k == IndexOf(data, r)
         IN IF k = 0
            THEN Append(data, [referrer |-> r, raceCount |-> 1,
                               totalReward |-> REWARD_PER_RACE])
            ELSE [data EXCEPT ![k].raceCount = @ + 1,
                              ![k].totalReward = @ + REWARD_PER_RACE]

\* the loop over the events: referralData as a sequence in insertion order
RECURSIVE Aggregate(_, _)
Aggregate(data, events) ==
    IF events = <<>> THEN data
    ELSE Aggregate(AddRace(data, Head(events)), Tail(events))

\* the accrual of the window funded whole, whatever is pending already
Unfunded_Whole(totalOwed, currentPending) == totalOwed

\* const unfunded = totalOwed.gt(currentPending)
\*     ? totalOwed.sub(currentPending) : BigNumber.from(0);
Unfunded(totalOwed, currentPending) ==
    IF totalOwed > currentPending THEN totalOwed - currentPending ELSE 0

\* arrays that are not emptied when an execution starts: they still hold
\* the plan of an execution that aborted at funding
EmptyPlan_Kept ==
    [referrersToFund |-> hist.plan.referrersToFund,
     amountsToFund |-> hist.plan.amountsToFund,
     totalToFund |-> hist.plan.totalToFund]

\* const referrersToFund = []; const amountsToFund = [];
\* let totalToFund = ethers.BigNumber.from(0);
EmptyPlan ==
    [referrersToFund |-> <<>>, amountsToFund |-> <<>>, totalToFund |-> 0]

\* the balance test with lte in place of lt
InsufficientBalance_Lte(balance, totalToFund) == balance <= totalToFund

\* if (balance.lt(totalToFund))
InsufficientBalance(balance, totalToFund) == balance < totalToFund

\* ------------------------------------------------------------------ state
IdleCycle ==
    [pc |-> "idle", currentBlock |-> 0, fromBlock |-> 0,
     events |-> <<>>, referralData |-> <<>>, k |-> 0, pendingSeen |-> <<>>,
     referrersToFund |-> <<>>, amountsToFund |-> <<>>, totalToFund |-> 0,
     tx |-> 0]

NoOutcome == [result |-> "none", at |-> "idle"]

\* history: no window / no funding plan of an aborted execution on record
NoWindow == <<>>
NoPlan == [events |-> <<>>, pendingSeen |-> <<>>, referrersToFund |-> <<>>,
           amountsToFund |-> <<>>, totalToFund |-> 0]

Active(c) == cyc[c].pc # "idle"
ActiveCycles == {c \in Cycles : Active(c)}

Init ==
    /\ height = InitHeight
    /\ lastProcessedBlock = START_BLOCK
    /\ raceLog = <<>>
    /\ pendingRewards = [r \in Referrers |-> 0]
    /\ walletBalance = InitBalance
    /\ txs = <<>>
    /\ keySet \in BOOLEAN
    /\ proc = "boot"
    /\ cyc = [c \in Cycles |-> IdleCycle]
    /\ outcome = NoOutcome
    /\ hist = [overlaps |-> 0, aborted |-> FALSE,
               disbursed |-> [r \in Referrers |-> 0],
               window |-> NoWindow, plan |-> NoPlan]

\* ------------------------------------------------- checkpoint assignments
\* Each operator gives the value of lastProcessedBlock after one exit of
\* trackAndFundReferrals.

\* if (events.length === 0) { lastProcessedBlock = currentBlock; return; }
CheckpointNoRaces(lpb, currentBlock) == currentBlock

\* if (referralData.size === 0) { lastProcessedBlock = currentBlock; return; }
CheckpointNoReferred(lpb, currentBlock) == currentBlock

\* an empty plan that returns without the assignment
CheckpointAllFunded_Stay(lpb, currentBlock) == lpb

\* if (referrersToFund.length === 0) { lastProcessedBlock = currentBlock; ... }
CheckpointAllFunded(lpb, currentBlock) == currentBlock

\* if (balance.lt(totalToFund)) { console.error(...); return; }
CheckpointInsufficient(lpb, currentBlock) == lpb

\* the checkpoint assigned as soon as the transaction is submitted
CheckpointSubmitted_Early(lpb, currentBlock) == currentBlock

\* const tx = await referral.fundRewards(...): no assignment before tx.wait()
CheckpointSubmitted(lpb, currentBlock) == lpb

\* const receipt = await tx.wait(); ... lastProcessedBlock = currentBlock;
CheckpointConfirmed(lpb, currentBlock) == currentBlock

\* a catch block that advances the checkpoint
CheckpointOnError_Advance(lpb, currentBlock) == currentBlock

\* catch (error) { console.error(...) }: no assignment
CheckpointOnError(lpb, currentBlock) == lpb

\* ------------------------------------------------------- cycle bookkeeping
FreeSlots == {c \in Cycles : ~Active(c)}
FreeSlot  == CHOOSE c \in FreeSlots : \A d \in FreeSlots : c <= d

Aborting(result) == result \in {"error", "insufficient"}

\* history: the window an aborted execution had asked the log for
AbortedWindow(c, result) ==
    IF Aborting(result) /\ cyc[c].pc \notin {"init", "getBlock"}
    THEN <<cyc[c].fromBlock, ToBlock(cyc[c].fromBlock, cyc[c].currentBlock)>>
    ELSE NoWindow

\* history: the funding plan of an execution that aborted at funding (at
\* the balance step, on a rejected fundRewards or on a rejected tx.wait),
\* with the events and the pending rewards it was computed from
AbortedPlan(c, result) ==
    IF Aborting(result) /\ cyc[c].pc \in {"balance", "fund", "wait"}
    THEN [events |-> cyc[c].events, pendingSeen |-> cyc[c].pendingSeen,
          referrersToFund |-> cyc[c].referrersToFund,
          amountsToFund |-> cyc[c].amountsToFund,
          totalToFund |-> cyc[c].totalToFund]
    ELSE NoPlan

\* the async function is entered: console.log, then `await initContracts()`
Enter(c) ==
    /\ cyc' = [cyc EXCEPT ![c] = [IdleCycle EXCEPT !.pc = "init"]]
    /\ outcome' = NoOutcome
    /\ hist' = [hist EXCEPT !.overlaps = @ + (IF ActiveCycles # {} THEN 1 ELSE 0)]

\* a catch block that ends the process with process.exit(1)
ProcAfter_Fatal(p, result) ==
    IF result = "error" THEN "fatal"
    ELSE IF p = "initial" THEN "interval" ELSE p

\* the process after an execution has ended, however it ended: when it was
\* the initial check of runWorker, runWorker goes on to setInterval; the
\* catch block ends nothing
ProcAfter(p, result) == IF p = "initial" THEN "interval" ELSE p

\* trackAndFundReferrals returns (or its catch block has run)
Leave(c, result) ==
    /\ cyc' = [cyc EXCEPT ![c] = IdleCycle]
    /\ outcome' = [result |-> result, at |-> cyc[c].pc]
    /\ proc' = ProcAfter(proc, result)
    /\ hist' = [hist EXCEPT !.aborted = @ \/ Aborting(result),
                             !.window = AbortedWindow(c, result),
                             !.plan = AbortedPlan(c, result)]

\* any awaited call rejects: control goes to the catch block
Throw(c) ==
    /\ lastProcessedBlock' =
          CheckpointOnError(lastProcessedBlock, cyc[c].currentBlock)
    /\ Leave(c, "error")
    /\ UNCHANGED envVars

\* ------------------------------------------------------- process actions
\* a credential test that never fires
MissingKey_Never(key) == FALSE

\* if (!PRIVATE_KEY)
MissingKey(key) == ~key

\* runWorker up to `await trackAndFundReferrals()` (lines 166-180)
RunWorker ==
    /\ proc = "boot"
    /\ IF MissingKey(keySet)
       THEN /\ proc' = "fatal"
            /\ UNCHANGED <<cyc, outcome, hist>>
       ELSE /\ proc' = "initial"
            /\ Enter(FreeSlot)
    /\ UNCHANGED <<envVars, lastProcessedBlock>>

\* the setInterval callback fires (lines 186-190); it does not look at
\* whether an earlier execution is still awaiting
Tick ==
    /\ proc = "interval"
    /\ FreeSlots # {}
    /\ ActiveCycles # {} => hist.overlaps < MaxOverlaps
    /\ Enter(FreeSlot)
    /\ UNCHANGED <<envVars, lastProcessedBlock, proc>>

\* SIGTERM / SIGINT: process.exit(0) (lines 194-202)
Signal ==
    /\ proc \in {"initial", "interval"}
    /\ proc' = "exited"
    /\ cyc' = [c \in Cycles |-> IdleCycle]
    /\ outcome' = IF ActiveCycles # {}
                   THEN [result |-> "killed", at |-> "exit"]
                   ELSE outcome
    /\ UNCHANGED <<envVars, lastProcessedBlock, hist>>

\* ------------------------------------------------- trackAndFundReferrals
\* await initContracts() (line 41)
InitContracts(c) ==
    /\ cyc[c].pc = "init"
    /\ cyc' = [cyc EXCEPT ![c].pc = "getBlock"]
    /\ UNCHANGED <<envVars, lastProcessedBlock, proc, outcome, hist>>

\* await provider.getBlockNumber(); fromBlock (lines 44-47)
GetBlockNumber(c) ==
    /\ cyc[c].pc = "getBlock"
    /\ cyc' = [cyc EXCEPT ![c].pc = "queryFilter",
                          ![c].currentBlock = height,
                          ![c].fromBlock = FromBlock(lastProcessedBlock, height)]
    /\ hist' = [hist EXCEPT !.window = NoWindow]
    /\ UNCHANGED <<envVars, lastProcessedBlock, proc, outcome>>

\* await pixelPony.queryFilter(filter, fromBlock, currentBlock) (lines 50-59)
QueryEvents(c) ==
    /\ cyc[c].pc = "queryFilter"
    /\ LET events == QueryFilter(raceLog, cyc[c].fromBlock,
                                 ToBlock(cyc[c].fromBlock, cyc[c].currentBlock))
       IN IF Len(events) = 0
          THEN /\ lastProcessedBlock' =
                    CheckpointNoRaces(lastProcessedBlock, cyc[c].currentBlock)
               /\ Leave(c, "noRaces")
          ELSE /\ cyc' = [cyc EXCEPT ![c].pc = "aggregate",
                                     ![c].events = events]
               /\ UNCHANGED <<lastProcessedBlock, proc, outcome, hist>>
    /\ UNCHANGED envVars

\* the loop over the events with its hasReferrer / referrerOf reads
\* (lines 61-94); the reads are of data that does not change, so the loop
\* is one step
AggregateEvents(c) ==
    /\ cyc[c].pc = "aggregate"
    /\ LET referralData == Aggregate(<<>>, cyc[c].events)
       IN IF Len(referralData) = 0
          THEN /\ lastProcessedBlock' =
                    CheckpointNoReferred(lastProcessedBlock, cyc[c].currentBlock)
               /\ Leave(c, "noReferred")
          ELSE /\ cyc' = [cyc EXCEPT ![c].pc = "diff",
                                     ![c].referralData = referralData,
                                     ![c].k = 1,
                                     ![c].referrersToFund = EmptyPlan.referrersToFund,
                                     ![c].amountsToFund = EmptyPlan.amountsToFund,
                                     ![c].totalToFund = EmptyPlan.totalToFund]
               /\ UNCHANGED <<lastProcessedBlock, proc, outcome, hist>>
    /\ UNCHANGED envVars

\* one iteration of the loop over referralData: await pendingRewards(...)
\* and, after the last one, the empty-plan test (lines 101-123)
DiffReferrer(c) ==
    /\ cyc[c].pc = "diff"
    /\ LET data == cyc[c].referralData[cyc[c].k]
           currentPending == pendingRewards[data.referrer]
           unfunded == Unfunded(data.totalReward, currentPending)
           referrersToFund == IF unfunded > 0
                              THEN Append(cyc[c].referrersToFund, data.referrer)
                              ELSE cyc[c].referrersToFund
           amountsToFund == IF unfunded > 0
                            THEN Append(cyc[c].amountsToFund, unfunded)
                            ELSE cyc[c].amountsToFund
           totalToFund == IF unfunded > 0
                          THEN cyc[c].totalToFund + unfunded
                          ELSE cyc[c].totalToFund
           last == cyc[c].k = Len(cyc[c].referralData)
       IN IF last /\ Len(referrersToFund) = 0
          THEN /\ lastProcessedBlock' =
                    CheckpointAllFunded(lastProcessedBlock, cyc[c].currentBlock)
               /\ Leave(c, "allFunded")
          ELSE /\ cyc' = [cyc EXCEPT ![c].pc = IF last THEN "balance" ELSE "diff",
                                     ![c].k = @ + 1,
                                     ![c].pendingSeen = Append(@, currentPending),
                                     ![c].referrersToFund = referrersToFund,
                                     ![c].amountsToFund = amountsToFund,
                                     ![c].totalToFund = totalToFund]
               /\ UNCHANGED <<lastProcessedBlock, proc, outcome, hist>>
    /\ UNCHANGED envVars

\* await wallet.getBalance() and the balance test (lines 126-138)
CheckBalance(c) ==
    /\ cyc[c].pc = "balance"
    /\ IF InsufficientBalance(walletBalance, cyc[c].totalToFund)
       THEN /\ lastProcessedBlock' =
                 CheckpointInsufficient(lastProcessedBlock, cyc[c].currentBlock)
            /\ Leave(c, "insufficient")
       ELSE /\ cyc' = [cyc EXCEPT ![c].pc = "fund"]
            /\ UNCHANGED <<lastProcessedBlock, proc, outcome, hist>>
    /\ UNCHANGED envVars

\* await referral.fundRewards(referrersToFund, amountsToFund,
\*                            {value: totalToFund}) resolves (lines 139-145)
SubmitFunding(c) ==
    /\ cyc[c].pc = "fund"
    /\ Len(txs) < MaxTxs
    /\ txs' = Append(txs, [referrers |-> cyc[c].referrersToFund,
                           amounts |-> cyc[c].amountsToFund,
                           value |-> cyc[c].totalToFund,
                           status |-> "pending"])
    /\ cyc' = [cyc EXCEPT ![c].pc = "wait", ![c].tx = Len(txs) + 1]
    /\ lastProcessedBlock' =
          CheckpointSubmitted(lastProcessedBlock, cyc[c].currentBlock)
    /\ UNCHANGED <<height, raceLog, pendingRewards, walletBalance, keySet,
                   proc, outcome, hist>>

\* await tx.wait() resolves with the receipt (lines 147-155)
Confirmed(c) ==
    /\ cyc[c].pc = "wait"
    /\ txs[cyc[c].tx].status = "mined"
    /\ lastProcessedBlock' =
          CheckpointConfirmed(lastProcessedBlock, cyc[c].currentBlock)
    /\ Leave(c, "funded")
    /\ UNCHANGED envVars

\* an awaited call of the execution rejects (network error, revert, failed
\* transaction): lines 157-163
Fail(c) ==
    /\ cyc[c].pc \in {"init", "getBlock", "queryFilter", "aggregate", "diff",
                      "balance", "fund", "wait"}
    /\ Throw(c)

\* ------------------------------------------------------------ environment
\* a block is mined, with the RaceExecuted events evs
MineBlock(evs) ==
    /\ height - InitHeight < MaxNewBlocks
    /\ height' = height + 1
    /\ raceLog' = raceLog \o [i \in 1..Len(evs) |->
                                 [block |-> height + 1, player |-> evs[i]]]
    /\ UNCHANGED <<pendingRewards, walletBalance, txs, keySet,
                   lastProcessedBlock, proc, cyc, outcome, hist>>

\* amount a transaction credits to referrer r
RECURSIVE Credit(_, _, _)
Credit(referrers, amounts, r) ==
    IF referrers = <<>> THEN 0
    ELSE (IF Head(referrers) = r THEN Head(amounts) ELSE 0)
         + Credit(Tail(referrers), Tail(amounts), r)

PendingTxs == {i \in 1..Len(txs) : txs[i].status = "pending"}

\* fundRewards(address[] referrers, uint256[] amounts) payable is executed
\* on chain for the oldest pending transaction of the wallet
ExecuteTx ==
    /\ PendingTxs # {}
    /\ LET i == CHOOSE j \in PendingTxs : \A l \in PendingTxs : j <= l
           tx == txs[i]
       IN IF walletBalance >= tx.value
          THEN /\ txs' = [txs EXCEPT ![i].status = "mined"]
               /\ walletBalance' = walletBalance - tx.value
               /\ pendingRewards' =
                    [r \in Referrers |->
                       pendingRewards[r] + Credit(tx.referrers, tx.amounts, r)]
               /\ hist' = [hist EXCEPT !.disbursed =
                    [r \in Referrers |->
                       @[r] + Credit(tx.referrers, tx.amounts, r)]]
          ELSE /\ txs' = [txs EXCEPT ![i].status = "failed"]
               /\ UNCHANGED <<walletBalance, pendingRewards, hist>>
    /\ UNCHANGED <<height, raceLog, keySet, lastProcessedBlock, proc, cyc,
                   outcome>>

\* ---------------------------------------------------------- specification
Next ==
    \/ RunWorker
    \/ Tick
    \/ Signal
    \/ \E c \in Cycles : InitContracts(c)
    \/ \E c \in Cycles : GetBlockNumber(c)
    \/ \E c \in Cycles : QueryEvents(c)
    \/ \E c \in Cycles : AggregateEvents(c)
    \/ \E c \in Cycles : DiffReferrer(c)
    \/ \E c \in Cycles : CheckBalance(c)
    \/ \E c \in Cycles : SubmitFunding(c)
    \/ \E c \in Cycles : Confirmed(c)
    \/ \E c \in Cycles : Fail(c)
    \/ \E evs \in BlockEvents : MineBlock(evs)
    \/ ExecuteTx

Spec == Init /\ [][Next]_vars

\* runWorker() is called when the module is loaded (line 205) and the event
\* loop runs the setInterval callback whenever the interval has elapsed;
\* nothing is assumed of the awaited network calls, which may stay
\* unsettled for ever
LiveSpec == Spec /\ WF_vars(RunWorker) /\ WF_vars(Tick)

TypeOK ==
    /\ height \in Nat
    /\ lastProcessedBlock \in Nat
    /\ proc \in {"boot", "initial", "interval", "exited", "fatal"}
    /\ \A r \in Referrers : pendingRewards[r] \in Nat
    /\ walletBalance \in Nat

\* ------------------------------------------------------------- properties
\* a step of execution c (every action changes the record of at most one
\* execution, Signal excepted, which ends them all)
StepOf(c) == cyc'[c] # cyc[c]

\* execution c returns in this step
Returns(c) == Active(c) /\ cyc'[c].pc = "idle" /\ outcome'.result # "killed"

\* execution c takes a step other than into its catch block or out of the
\* process: an awaited call of it has resolved
Proceeds(c) ==
    /\ StepOf(c)
    /\ ~(cyc'[c].pc = "idle" /\ outcome'.result \in {"error", "killed"})

\* number of RaceExecuted events in blocks up to upTo whose player has r as
\* referrer
RECURSIVE ReferredRaces(_, _, _)
ReferredRaces(log, r, upTo) ==
    IF log = <<>> THEN 0
    ELSE (IF /\ Head(log).block <= upTo
             /\ hasReferrer(Head(log).player)
             /\ referrerOf(Head(log).player) = r
          THEN 1 ELSE 0) + ReferredRaces(Tail(log), r, upTo)

\* C1: an execution that has reached the funding step sets the checkpoint
\* only in the step in which tx.wait() returns the receipt of its mined
\* transaction, and then to its currentBlock (the window's toBlock); every
\* other step it takes from there (the submission, a failed submission, a
\* failed wait) leaves the checkpoint as it was.
C1_CheckpointAfterConfirmation ==
    [][\A c \in Cycles :
         (cyc[c].pc \in {"fund", "wait"} /\ StepOf(c)) =>
            IF Returns(c) /\ outcome'.result = "funded"
            THEN /\ cyc[c].pc = "wait"
                 /\ txs[cyc[c].tx].status = "mined"
                 /\ lastProcessedBlock' =
                       ToBlock(cyc[c].fromBlock, cyc[c].currentBlock)
            ELSE lastProcessedBlock' = lastProcessedBlock]_vars

\* C1 witness: a confirmation wait has failed although the transaction was
\* mined, and the checkpoint is still the initial one
C1_Witness ==
    /\ outcome = [result |-> "error", at |-> "wait"]
    /\ \E i \in 1..Len(txs) : txs[i].status = "mined"
    /\ lastProcessedBlock = START_BLOCK

\* C2: whichever awaited step of an execution fails, the execution returns
\* in that step with the error reported, the checkpoint is left as it was
\* and the process goes on (nothing is thrown out of the execution).
C2_FailureLeavesCheckpoint ==
    [][\A c \in Cycles :
         (Returns(c) /\ outcome'.result = "error") =>
            /\ outcome'.at = cyc[c].pc
            /\ lastProcessedBlock' = lastProcessedBlock
            /\ proc' = "interval"]_vars

\* C2 witness: a pendingRewards query has failed after an earlier execution
\* had advanced the checkpoint
C2_Witness ==
    /\ outcome = [result |-> "error", at |-> "diff"]
    /\ lastProcessedBlock > START_BLOCK
    /\ proc = "interval"

\* C3: at the balance test, a balance below the plan total ends the
\* execution with an insufficient-funds report, no transaction and the
\* checkpoint as it was; a balance of at least the total sends the
\* execution on to fundRewards with the plan.
C3_BalanceTest ==
    [][\A c \in Cycles :
         (cyc[c].pc = "balance" /\ Proceeds(c)) =>
            /\ cyc[c].totalToFund = SumSeq(cyc[c].amountsToFund)
            /\ IF walletBalance < cyc[c].totalToFund
               THEN /\ Returns(c)
                    /\ outcome'.result = "insufficient"
                    /\ txs' = txs
                    /\ lastProcessedBlock' = lastProcessedBlock
               ELSE /\ cyc'[c].pc = "fund"
                    /\ lastProcessedBlock' = lastProcessedBlock]_vars

\* C3 witness: after a plan that the balance covered was submitted and
\* mined, an execution has ended on insufficient funds
C3_Witness ==
    /\ outcome.result = "insufficient"
    /\ walletBalance > 0
    /\ \E i \in 1..Len(txs) : txs[i].status = "mined"

\* the executions that write the checkpoint when they return
Advancing(result) == result \in {"noRaces", "noReferred", "allFunded", "funded"}

\* no execution is running, nothing has been aborted or has overlapped, and
\* every transaction sent has been executed
Settled ==
    /\ proc = "interval"
    /\ ActiveCycles = {}
    /\ PendingTxs = {}
    /\ hist.overlaps = 0
    /\ ~hist.aborted

\* C4: exactly-once-effective funding.  After a run of executions one after
\* the other, none of them aborted, the amount disbursed to each referrer is
\* REWARD_PER_RACE times the number of that referrer's referred races in
\* the blocks the checkpoint has passed.
C4_ExactlyOnceFunding ==
    Settled =>
       \A r \in Referrers :
          hist.disbursed[r] =
             REWARD_PER_RACE * ReferredRaces(raceLog, r, lastProcessedBlock)

\* C5: no double funding on replay.  Without overlapping executions, the
\* amount disbursed to a referrer never exceeds REWARD_PER_RACE times the
\* number of that referrer's referred races on the chain, however often
\* their blocks are scanned again.
C5_NoDoubleFunding ==
    hist.overlaps = 0 =>
       \A r \in Referrers :
          hist.disbursed[r] <=
             REWARD_PER_RACE * ReferredRaces(raceLog, r, height)

\* C6: executions of trackAndFundReferrals never overlap: at most one is
\* between its start and its end.
C6_NoOverlap == Cardinality(ActiveCycles) <= 1

\* C7: bounded scan window.  With a checkpoint C > 0 and a height H >= C
\* the log query runs from C + 1 to min(C + 1 + maxRange, H), here for the
\* smallest range the spec's parameter can take.
C7_BoundedWindow ==
    [][\A c \in Cycles :
         (/\ cyc[c].pc = "getBlock" /\ cyc'[c].pc = "queryFilter"
          /\ lastProcessedBlock > 0 /\ height >= lastProcessedBlock) =>
            LET maxRange == 0 IN
            /\ cyc'[c].fromBlock = lastProcessedBlock + 1
            /\ ToBlock(cyc'[c].fromBlock, cyc'[c].currentBlock) =
                  Min(lastProcessedBlock + 1 + maxRange, height)]_vars

\* C8: with the checkpoint 0 the window starts at
\* max(0, currentBlock - LOOKBACK), never below 0; with any other
\* checkpoint it starts at checkpoint + 1.
C8_FromBlockClamped ==
    [][\A c \in Cycles :
         (cyc[c].pc = "getBlock" /\ cyc'[c].pc = "queryFilter") =>
            cyc'[c].fromBlock =
               IF lastProcessedBlock = 0
               THEN Max(0, height - LOOKBACK)
               ELSE lastProcessedBlock + 1]_vars

\* C9: the windows of the executions that advance the checkpoint are
\* contiguous: but for the first one, each starts one block after the
\* window of the execution that advanced the checkpoint before it; and
\* every window that is queried has fromBlock <= toBlock.
C9_ContiguousWindows ==
    /\ [](\A c \in Cycles :
            cyc[c].pc = "queryFilter" =>
               cyc[c].fromBlock <= ToBlock(cyc[c].fromBlock, cyc[c].currentBlock))
    /\ [][\A c \in Cycles :
            (/\ Returns(c) /\ Advancing(outcome'.result)
             /\ lastProcessedBlock # START_BLOCK) =>
               cyc[c].fromBlock = lastProcessedBlock + 1]_vars

\* C10: empty window.  An execution that reads a height equal to the
\* non-zero checkpoint ends there: it issues no log query, sends no
\* transaction and leaves the checkpoint as it was.
C10_EmptyWindowNoQuery ==
    [][\A c \in Cycles :
         (/\ cyc[c].pc = "getBlock" /\ Proceeds(c)
          /\ lastProcessedBlock # 0 /\ height = lastProcessedBlock) =>
            /\ cyc'[c].pc = "idle"
            /\ txs' = txs
            /\ lastProcessedBlock' = lastProcessedBlock]_vars

\* C11: the execution that follows an aborted one (no other execution
\* running) asks the log for the window the aborted one had asked for: the
\* same fromBlock and the same toBlock, with the checkpoint 0 as with any
\* other.
C11_SameWindowAfterAbort ==
    [][\A c \in Cycles :
         (/\ cyc[c].pc = "getBlock" /\ cyc'[c].pc = "queryFilter"
          /\ hist.overlaps = 0
          /\ hist.window # NoWindow) =>
            /\ cyc'[c].fromBlock = hist.window[1]
            /\ ToBlock(cyc'[c].fromBlock, cyc'[c].currentBlock) = hist.window[2]]_vars

\* the plan an execution holds once its loop over referralData is over
HoldsPlan(c) == cyc[c].pc \in {"balance", "fund", "wait"}

\* C12: the funding plan is well formed.  Once the loop over referralData is
\* over, each referrer's planned amount is max(0, accrued - pending) for the
\* pending balance that was read for it; referrers with a planned amount of
\* 0 are not in the plan and every amount in it is above 0; the two arrays
\* have the same length and name no referrer twice; totalToFund, and the
\* value of every transaction sent, is the sum of the amounts.
C12_FundingPlanWellFormed ==
    /\ \A c \in Cycles :
         HoldsPlan(c) =>
            LET data == cyc[c].referralData
                seen == cyc[c].pendingSeen
                refs == cyc[c].referrersToFund
                amts == cyc[c].amountsToFund
                planned(k) == Max(0, data[k].totalReward - seen[k])
            IN /\ Len(seen) = Len(data)
               /\ Len(refs) = Len(amts)
               /\ \A i, j \in 1..Len(refs) : refs[i] = refs[j] => i = j
               /\ \A i \in 1..Len(amts) : amts[i] > 0
               /\ \A k \in 1..Len(data) :
                     IF planned(k) > 0
                     THEN \E i \in 1..Len(refs) :
                             refs[i] = data[k].referrer /\ amts[i] = planned(k)
                     ELSE \A i \in 1..Len(refs) : refs[i] # data[k].referrer
               /\ \A i \in 1..Len(refs) :
                     \E k \in 1..Len(data) : refs[i] = data[k].referrer
               /\ cyc[c].totalToFund = SumSeq(amts)
    /\ \A i \in 1..Len(txs) :
          /\ Len(txs[i].referrers) = Len(txs[i].amounts)
          /\ txs[i].value = SumSeq(txs[i].amounts)

\* C12 witness: a plan in which one referrer gets the part of its accrual
\* that its pending balance does not cover and another, whose pending
\* balance covers its accrual, is absent
C12_Witness ==
    \E c \in Cycles :
       /\ HoldsPlan(c)
       /\ \E k \in 1..Len(cyc[c].referralData) :
             /\ cyc[c].pendingSeen[k] > 0
             /\ cyc[c].referralData[k].totalReward > cyc[c].pendingSeen[k]
       /\ \E k \in 1..Len(cyc[c].referralData) :
             cyc[c].referralData[k].totalReward <= cyc[c].pendingSeen[k]

\* number of the events whose player has r registered as referrer
RECURSIVE RacesFor(_, _)
RacesFor(events, r) ==
    IF events = <<>> THEN 0
    ELSE (IF hasReferrer(Head(events)) /\ referrerOf(Head(events)) = r
          THEN 1 ELSE 0) + RacesFor(Tail(events), r)

\* the accrual referralData holds for referrer r, 0 when it has no entry
AccruedFor(data, r) ==
    IF IndexOf(data, r) = 0 THEN 0 ELSE data[IndexOf(data, r)].totalReward

\* C13: aggregation.  The step that runs the loop over the events of the
\* window leaves, for every referrer, an accrual of REWARD_PER_RACE times
\* the number of events whose player has that referrer, in one entry per
\* referrer; events of players without referrer add nothing and do not fail
\* the step: when no event has a referrer the execution returns "no
\* referred races", otherwise it goes on to the diff.
C13_Aggregation ==
    [][\A c \in Cycles :
         (cyc[c].pc = "aggregate" /\ Proceeds(c)) =>
            LET events == cyc[c].events
                referred == \E i \in 1..Len(events) : hasReferrer(events[i])
            IN IF referred
               THEN LET data == cyc'[c].referralData
                    IN /\ cyc'[c].pc = "diff"
                       /\ \A r \in Referrers :
                             AccruedFor(data, r) =
                                REWARD_PER_RACE * RacesFor(events, r)
                       /\ \A k \in 1..Len(data) :
                             /\ data[k].referrer \in Referrers
                             /\ data[k].raceCount > 0
                             /\ data[k].totalReward =
                                   REWARD_PER_RACE * data[k].raceCount
                       /\ \A j, k \in 1..Len(data) :
                             data[j].referrer = data[k].referrer => j = k
               ELSE /\ Returns(c)
                    /\ outcome'.result = "noReferred"]_vars

\* C13 witness: a window with two events of one referrer's player, an event
\* of the other referrer's player and an event of a player without
\* referrer has been aggregated
C13_Witness ==
    \E c \in Cycles :
       /\ cyc[c].pc = "diff"
       /\ \E i \in 1..Len(cyc[c].events) : ~hasReferrer(cyc[c].events[i])
       /\ \E k \in 1..Len(cyc[c].referralData) :
             cyc[c].referralData[k].raceCount = 2
       /\ Len(cyc[c].referralData) = 2

\* C14: replay identity of the diff.  When an execution has aborted at
\* funding (at the balance step or on a rejected submission) and the next
\* execution, with no other running, gets the same events and reads the
\* same pending balances, the plan it ends its loop over referralData with
\* is the plan of the aborted execution: the same referrers, the same
\* amounts, the same total.
C14_ReplaySamePlan ==
    [][\A c \in Cycles :
         LET k == cyc[c].k
             seen == Append(cyc[c].pendingSeen,
                            pendingRewards[cyc[c].referralData[k].referrer])
         IN (/\ cyc[c].pc = "diff" /\ Proceeds(c)
             /\ k = Len(cyc[c].referralData)
             /\ hist.overlaps = 0
             /\ hist.plan # NoPlan
             /\ cyc[c].events = hist.plan.events
             /\ seen = hist.plan.pendingSeen) =>
               /\ cyc'[c].pc = "balance"
               /\ cyc'[c].referrersToFund = hist.plan.referrersToFund
               /\ cyc'[c].amountsToFund = hist.plan.amountsToFund
               /\ cyc'[c].totalToFund = hist.plan.totalToFund]_vars

\* C14 witness: after an execution aborted on the balance test, the next
\* one has computed its plan from the same events and the same pending
\* balances, one of them above 0
C14_Witness ==
    \E c \in Cycles :
       /\ cyc[c].pc = "balance"
       /\ hist.overlaps = 0
       /\ hist.plan # NoPlan
       /\ cyc[c].events = hist.plan.events
       /\ cyc[c].pendingSeen = hist.plan.pendingSeen
       /\ \E k \in 1..Len(cyc[c].pendingSeen) : cyc[c].pendingSeen[k] > 0
       /\ cyc[c].totalToFund > walletBalance

\* the awaited network operations the retry is claimed for: the log query
\* and the funding submission
Retried(c) == cyc[c].pc \in {"queryFilter", "fund"}

\* C15: bounded retry.  An execution makes each of its network calls once,
\* so a rejected call is the first attempt; with a retry budget of two or
\* more attempts the first rejection of the log query or of the funding
\* submission does not abort the execution: it stays at that operation.
C15_BoundedRetry ==
    [][\A c \in Cycles :
         (Retried(c) /\ StepOf(c) /\ outcome'.result # "killed") =>
            ~(Returns(c) /\ outcome'.result = "error")]_vars

\* an execution has ended aborted, none is running and the process has not
\* been told to stop
AbortedAndIdle ==
    /\ Aborting(outcome.result)
    /\ ActiveCycles = {}
    /\ proc # "exited"

\* C16: the scheduler keeps scheduling.  The first thing the worker does
\* once the credential is found is to start an execution; and whenever an
\* execution has ended in an error or on insufficient funds, with none
\* other running, a further execution starts later on unless a termination
\* signal ends the process first.
C16_KeepsScheduling ==
    /\ [][(proc = "boot" /\ proc' # "boot" /\ ~MissingKey(keySet)) =>
             (proc' = "initial" /\ ActiveCycles' # {})]_vars
    /\ AbortedAndIdle ~> (proc = "exited" \/ ActiveCycles # {})

\* C16 witness: an execution has ended in an error after it had asked for
\* its window, a transaction has been sent, the checkpoint is still the
\* initial one, and the process is running with the timer installed
C16_Witness ==
    /\ AbortedAndIdle
    /\ proc = "interval"
    /\ outcome.result = "error"
    /\ hist.window # NoWindow
    /\ lastProcessedBlock = START_BLOCK
    /\ Len(txs) > 0

\* C17: a termination signal halts the process only between executions:
\* the process does not end with exit status 0 in a step before which an
\* execution was still running, for one after the funding transaction was
\* submitted and before its confirmation.
C17_SignalBetweenCycles ==
    [][(proc # "exited" /\ proc' = "exited") => ActiveCycles = {}]_vars

\* C18: with MAINNET_PRIVATE_KEY missing the process does nothing but exit
\* with status 1: no execution of trackAndFundReferrals ever starts (so no
\* height query, log query or ledger read is made), no transaction is sent,
\* the timer is never installed, the checkpoint stays the initial one, and
\* the exit is not the graceful one of a signal.
C18_MissingKeyExits ==
    /\ [](~keySet =>
            /\ proc \in {"boot", "fatal"}
            /\ ActiveCycles = {}
            /\ outcome = NoOutcome
            /\ txs = <<>>
            /\ lastProcessedBlock = START_BLOCK
            /\ hist.overlaps = 0 /\ ~hist.aborted
            /\ hist.window = NoWindow /\ hist.plan = NoPlan)
    /\ [][(~keySet /\ proc = "boot" /\ proc' # "boot") => proc' = "fatal"]_vars
    /\ [](proc = "fatal" => ~keySet)

\* C18 witness: the process has exited with status 1 for want of the
\* credential, while the chain has gone on
C18_Witness ==
    /\ ~keySet
    /\ proc = "fatal"
    /\ height > InitHeight

\* C19: checkpoint monotonicity.  The chain height never decreases, and
\* lastProcessedBlock never decreases either, whatever the executions and
\* timer ticks, ticks that fire while an earlier execution is still
\* awaiting included.
C19_CheckpointMonotone ==
    [][height' >= height => lastProcessedBlock' >= lastProcessedBlock]_vars

\* the RaceExecuted events on chain in the blocks from..to
InWindow(from, to) ==
    {i \in 1..Len(raceLog) : raceLog[i].block >= from /\ raceLog[i].block <= to}

\* C20: an execution submits at most one funding transaction, and only with
\* a plan that is not empty and that the balance read just before covered.
\* An execution that finds no events, no event of a referred player, or
\* nothing left to fund ends there: it has sent no transaction, has not
\* come to the balance query, and sets the checkpoint to the upper end of
\* its window.
C20_AtMostOneTransaction ==
    [][/\ Len(txs') # Len(txs) =>
            \E c \in Cycles :
               /\ cyc[c].pc = "fund" /\ cyc'[c].pc = "wait"
               /\ cyc[c].tx = 0 /\ cyc'[c].tx = Len(txs')
               /\ Len(txs') = Len(txs) + 1
               /\ cyc[c].referrersToFund # <<>>
               /\ cyc[c].totalToFund > 0
               /\ txs'[Len(txs')].referrers = cyc[c].referrersToFund
               /\ txs'[Len(txs')].amounts = cyc[c].amountsToFund
               /\ txs'[Len(txs')].value = cyc[c].totalToFund
       /\ \A c \in Cycles :
            /\ (cyc[c].pc # "fund" /\ cyc'[c].pc = "fund") =>
                  /\ cyc[c].pc = "balance"
                  /\ walletBalance >= cyc[c].totalToFund
                  /\ cyc[c].referrersToFund # <<>>
            /\ (cyc[c].pc = "wait" /\ StepOf(c)) =>
                  (cyc'[c].pc = "idle" /\ Len(txs') = Len(txs))
            /\ Proceeds(c) =>
                  LET nothing ==
                        \/ /\ cyc[c].pc = "queryFilter"
                           /\ InWindow(cyc[c].fromBlock, cyc[c].currentBlock) = {}
                        \/ /\ cyc[c].pc = "aggregate"
                           /\ \A i \in 1..Len(cyc[c].events) :
                                 ~hasReferrer(cyc[c].events[i])
                        \/ /\ cyc[c].pc = "diff"
                           /\ cyc[c].k = Len(cyc[c].referralData)
                           /\ cyc[c].referrersToFund = <<>>
                           /\ cyc[c].referralData[cyc[c].k].totalReward <=
                                 pendingRewards[cyc[c].referralData[cyc[c].k].referrer]
                  IN IF nothing
                     THEN /\ Returns(c)
                          /\ outcome'.result \in {"noRaces", "noReferred", "allFunded"}
                          /\ cyc[c].tx = 0
                          /\ txs' = txs
                          /\ lastProcessedBlock' =
                                ToBlock(cyc[c].fromBlock, cyc[c].currentBlock)
                     ELSE ~(/\ Returns(c)
                            /\ outcome'.result \in
                                  {"noRaces", "noReferred", "allFunded"})]_vars

\* C20 witness: an execution found every referrer of its window funded
\* already by a mined transaction, and has set the checkpoint to the height
\* it read without sending a second transaction
C20_Witness ==
    /\ outcome = [result |-> "allFunded", at |-> "diff"]
    /\ lastProcessedBlock > InitHeight
    /\ Len(txs) = 1 /\ txs[1].status = "mined"
    /\ hist.overlaps = 0

====
